---- MODULE Spec2Model ----
(***************************************************************************)
(* prometheus-sql: the per-query polling worker (worker.go) and the metric *)
(* lifecycle engine (QueryResult: SetMetrics / registerMetric /            *)
(* RegisterMetrics).                                                       *)
(*                                                                         *)
(* The export layer (the prometheus default registry) is the external      *)
(* collaborator of the code.  It is modelled by its contract: a gauge is   *)
(* created with a name and constant labels, Set stores a value,            *)
(* Unregister(handle) withdraws that handle, and MustRegister panics when  *)
(* a gauge with the same name and the same constant labels is registered   *)
(* already.  A panic is not recovered anywhere in the code, so it ends     *)
(* the process.                                                            *)
(***************************************************************************)
EXTENDS Integers, Sequences, FiniteSets, TLC

VARIABLES
    config,      \* the Config: Defaults and DataSources (immutable after load)
    Query,       \* Query descriptor of every worker (immutable after load)
    table,       \* rows the remote service may return for every query
    Result,      \* QueryResult.Result of every worker: series key -> gauge handle
    gauges,      \* the live gauge objects: handle -> [Name, ConstLabels, value]
    registered,  \* prometheus default registry: the handles registered in it
    crashed,     \* TRUE once a panic has taken the process down
    last,        \* the last call of Worker.SetMetrics: its worker, argument and
                 \* error, the (row, sub-metric) pairs it entered, the keys of its
                 \* "Creating", "Unregistering metric" and "Registering metric"
                 \* lines, and whether ctx.Done() was closed when it was made
    pc,          \* where every worker stands in Start / Fetch
    attempt,     \* backoff.Backoff attempt counter of every worker
    ticker,      \* the ticker of every worker: "none" before NewTicker, then its
                 \* channel C (capacity 1) "empty" or "full"
    ctxDone,     \* TRUE once cancel() has closed ctx.Done()
    wg,          \* counter of the sync.WaitGroup
    mainpc       \* where main stands

vars == <<config, Query, table, Result, gauges, registered, crashed, last,
          pc, attempt, ticker, ctxDone, wg, mainpc>>

regVars == <<Result, gauges, registered>>
workerVars == <<pc, attempt, ticker, ctxDone, wg, mainpc>>

(***************************************************************************)
(* Bounds.                                                                 *)
(***************************************************************************)
\* longest record set a fetch returns
MaxRows == 2
\* number of failed attempts after which the attempt counter is no longer advanced
MaxAttempt == 2

(***************************************************************************)
(* Values.  A scalar of a record is a string or a float64 (encoding/json   *)
(* decodes every number as float64), or something else (a bool).  A number *)
(* is named by its decimal text.                                           *)
(***************************************************************************)
Str(s) == [t |-> "string", v |-> s]
Num(s) == [t |-> "float64", v |-> s]
Bool(s) == [t |-> "bool", v |-> s]

Range(f) == {f[x] : x \in DOMAIN f}

\* strings.ToLower on the strings that occur
ToLower(s) ==
    CASE s = "US" -> "us"
      [] s = "EU" -> "eu"
      [] s = "Region" -> "region"
      [] s = "Count" -> "count"
      [] s = "X" -> "x"
      [] OTHER -> s

\* fmt.Sprintf("%v", v)
Sprintf(v) == v.v

\* strconv.ParseFloat(t, 64): the decimal texts that parse, and their value
ParseFloat(s) ==
    CASE s = "0" -> [ok |-> TRUE, f |-> 0]
      [] s = "1" -> [ok |-> TRUE, f |-> 1]
      [] s = "2" -> [ok |-> TRUE, f |-> 2]
      [] s = "3" -> [ok |-> TRUE, f |-> 3]
      [] OTHER -> [ok |-> FALSE, f |-> 0]

setValueForResultLenient(v) ==
    CASE v.t \in {"string", "float64"} -> [err |-> "", f |-> ParseFloat(v.v).f]
      [] OTHER -> [err |-> "type", f |-> 0]

\* setValueForResult: the float the gauge is set to, or the error
setValueForResult(v) ==
    CASE v.t = "string" ->
            IF ParseFloat(v.v).ok THEN [err |-> "", f |-> ParseFloat(v.v).f]
                                  ELSE [err |-> "parse", f |-> 0]
      [] v.t = "float64" -> [err |-> "", f |-> ParseFloat(v.v).f]
      [] OTHER -> [err |-> "type", f |-> 0]

\* the column and label names that occur, in byte order
SortedNames == <<"Count", "Region", "count", "error", "region", "x", "y">>

\* encoding/json of one scalar
jsonValue(v) == IF v.t = "string" THEN "\"" \o v.v \o "\"" ELSE v.v

RECURSIVE jsonMembers(_, _, _)
jsonMembers(facets, i, first) ==
    IF i > Len(SortedNames) THEN ""
    ELSE IF SortedNames[i] \in DOMAIN facets
         THEN (IF first THEN "" ELSE ",")
              \o "\"" \o SortedNames[i] \o "\":" \o jsonValue(facets[SortedNames[i]])
              \o jsonMembers(facets, i + 1, FALSE)
         ELSE jsonMembers(facets, i + 1, first)

\* json.Marshal(facets): the members in the sorted order of their names
Marshal(facets) == "{" \o jsonMembers(facets, 1, TRUE) \o "}"

\* registerMetric, lines 39-42: the metric name
metricName(q, suffix) == IF suffix # "" THEN q.Name \o "_" \o suffix ELSE q.Name

\* registerMetric, lines 44-47: the series key
resultKey(q, facets, suffix) == metricName(q, suffix) \o Marshal(facets)

\* registerMetric, lines 50-52: the constant labels
labelsOf(facets) == [k \in DOMAIN facets |-> ToLower(Sprintf(facets[k]))]

\* prometheus.NewGauge: a handle no live gauge has
NewGauge(gs, key) == IF <<key, 0>> \in DOMAIN gs THEN <<key, 1>> ELSE <<key, 0>>

\* registerMetric: the key, the status, and the registry after the call
registerMetric(q, res, gs, facets, suffix) ==
    LET key == resultKey(q, facets, suffix)
        h == NewGauge(gs, key)
    IN  IF key \in DOMAIN res
        THEN [key |-> key, status |-> "registered", Result |-> res, gauges |-> gs]
        ELSE [key |-> key, status |-> "unregistered",
              Result |-> [k \in DOMAIN res \cup {key} |->
                             IF k = key THEN h ELSE res[k]],
              gauges |-> [g \in DOMAIN gs \cup {h} |->
                             IF g = h
                             THEN [Name |-> "query_result_" \o metricName(q, suffix),
                                   ConstLabels |-> labelsOf(facets),
                                   value |-> 0]
                             ELSE gs[g]]]

(***************************************************************************)
(* QueryResult.SetMetrics.  Go ranges over a map in an unspecified order:  *)
(* the order of the sub-metrics of a row, and the order of the columns of  *)
(* a row (which decides the value a facet keeps when two columns have the  *)
(* same lower-cased name), are choices; SetMetrics is the set of the       *)
(* outcomes the code can produce.  An outcome is the registry after the    *)
(* call (entries created and values set are kept when the call fails),     *)
(* the returned facetsWithResult, the error, and the (row, sub-metric)     *)
(* pairs whose loop body was entered.                                      *)
(***************************************************************************)
Perms(S) == {o \in [1..Cardinality(S) -> S] : \A i, j \in DOMAIN o : o[i] = o[j] => i = j}

\* lines 101-108: the effective sub-metric map
submetricsOf(q) ==
    IF DOMAIN q.SubMetrics # {} THEN q.SubMetrics ELSE [s \in {""} |-> q.DataField]

valueColumnsFirst(row, datafield) ==
    LET cols == {k \in DOMAIN row : ~(Cardinality(DOMAIN row) > 1 /\ ToLower(k) # datafield)}
    IN  IF cols = {} THEN {} ELSE {CHOOSE k \in cols : TRUE}

\* lines 121-141: the columns taken as the gauge data of one (row, sub-metric) pair
valueColumns(row, datafield) ==
    {k \in DOMAIN row : ~(Cardinality(DOMAIN row) > 1 /\ ToLower(k) # datafield)}

\* lines 122-133: the columns taken as facets
facetColumns(row, sub, datafield) ==
    {k \in DOMAIN row \ valueColumns(row, datafield) : ToLower(k) \notin Range(sub)}

\* line 132: facet[strings.ToLower(k)] = v, a later column overwriting an earlier one
facetChoices(row, cols) ==
    LET names == {ToLower(k) : k \in cols}
    IN  {f \in [names -> Range(row)] :
            \A n \in names : \E k \in cols : ToLower(k) = n /\ f[n] = row[k]}

\* lines 114-156: the body of the inner loop for one (row, sub-metric) pair
setPair(q, sub, st, row, i, suffix) ==
    IF st.err # "" THEN {st}
    ELSE
    LET datafield == sub[suffix]
        vcols == valueColumns(row, datafield)
        entered == [st EXCEPT !.calls = Append(@, <<i, suffix>>)]
    IN  IF Cardinality(vcols) > 1 THEN {[entered EXCEPT !.err = "ambiguous"]}
        ELSE IF vcols = {} THEN {[entered EXCEPT !.err = "notfound"]}
        ELSE
        LET dataVal == row[CHOOSE k \in vcols : TRUE]
            set == setValueForResult(dataVal)
        IN  {LET rm == registerMetric(q, entered.Result, entered.gauges, facet, suffix)
                 h == rm.Result[rm.key]
             IN  IF set.err # ""
                 THEN [entered EXCEPT !.Result = rm.Result, !.gauges = rm.gauges,
                                      !.err = set.err]
                 ELSE [entered EXCEPT !.Result = rm.Result,
                                      !.gauges = [rm.gauges EXCEPT ![h].value = set.f],
                                      !.fwr = [k \in DOMAIN @ \cup {rm.key} |->
                                                  IF k = rm.key THEN rm.status ELSE @[k]]]
             : facet \in facetChoices(row, facetColumns(row, sub, datafield))}

RECURSIVE setOrder(_, _, _, _, _, _, _)
setOrder(q, sub, S, row, i, order, j) ==
    IF j > Len(order) THEN S
    ELSE setOrder(q, sub, UNION {setPair(q, sub, st, row, i, order[j]) : st \in S},
                  row, i, order, j + 1)

\* line 114: the sub-metrics of one row, in every order the range can take
setRow(q, sub, S, row, i) ==
    UNION {setOrder(q, sub, S, row, i, order, 1) : order \in Perms(DOMAIN sub)}

RECURSIVE setRows(_, _, _, _, _)
setRows(q, sub, S, recs, i) ==
    IF i > Len(recs) THEN S
    ELSE setRows(q, sub, setRow(q, sub, S, recs[i], i), recs, i + 1)

SetMetricsUnvalidated(q, res, gs, recs) ==
    setRows(q, submetricsOf(q),
            {[Result |-> res, gauges |-> gs, fwr |-> <<>>, err |-> "", calls |-> <<>>]},
            recs, 1)

SetMetrics(q, res, gs, recs) ==
    LET st0 == [Result |-> res, gauges |-> gs, fwr |-> <<>>, err |-> "", calls |-> <<>>]
    IN  IF Len(recs) > 1 /\ Cardinality(DOMAIN recs[1]) = 1
        THEN {[st0 EXCEPT !.err = "multirow"]}
        ELSE IF q.DataField # "" /\ DOMAIN q.SubMetrics # {}
        THEN {[st0 EXCEPT !.err = "incompatible"]}
        ELSE setRows(q, submetricsOf(q), {st0}, recs, 1)

(***************************************************************************)
(* The export layer.                                                       *)
(***************************************************************************)
\* what the export layer tells two series apart by: name and constant labels
identity(g) == <<g.Name, g.ConstLabels>>

UnregisterNothing(reg, h) == reg

\* prometheus.Unregister(m)
Unregister(reg, h) == reg \ {h}

\* prometheus.MustRegister(m): panics when its identity is registered already
MustRegister(reg, gs, h) ==
    IF \E g \in reg : identity(gs[g]) = identity(gs[h])
    THEN [panic |-> TRUE, registered |-> reg]
    ELSE [panic |-> FALSE, registered |-> reg \cup {h}]

RECURSIVE unregisterAll(_, _)
unregisterAll(reg, hs) ==
    IF hs = {} THEN reg
    ELSE LET h == CHOOSE x \in hs : TRUE
         IN  unregisterAll(Unregister(reg, h), hs \ {h})

RECURSIVE runDeferred(_, _, _, _)
runDeferred(st, gs, order, j) ==
    IF j > Len(order) THEN st
    ELSE LET r == MustRegister(st.registered, gs, order[j])
         IN  runDeferred([panic |-> st.panic \/ r.panic, registered |-> r.registered],
                         gs, order, j + 1)

RegisterMetricsInScan(res, gs, reg, fwr) ==
    LET stale == DOMAIN res \ DOMAIN fwr
        res1 == [k \in DOMAIN res \ stale |-> res[k]]
        new == {res[k] : k \in {k \in DOMAIN fwr : fwr[k] = "unregistered"}}
    IN  {[Result |-> res1, gauges |-> [g \in DOMAIN gs \ {res[k] : k \in stale} |-> gs[g]],
          registered |-> unregisterAll(r.registered, {res[k] : k \in stale}),
          panic |-> r.panic, unregistering |-> stale,
          registering |-> {k \in DOMAIN fwr : fwr[k] = "unregistered"}] :
            r \in {runDeferred([panic |-> FALSE, registered |-> reg], gs, order, 1) :
                      order \in Perms(new)}}

(***************************************************************************)
(* QueryResult.RegisterMetrics: the entries not in facetsWithResult are    *)
(* unregistered and deleted during the scan; the entries whose status is   *)
(* unregistered are registered by deferred calls, which run when the scan  *)
(* has ended, in the reverse of the order the range took.  A deferred call *)
(* that panics does not keep the remaining deferred calls from running.    *)
(***************************************************************************)
RegisterMetrics(res, gs, reg, fwr) ==
    LET stale == DOMAIN res \ DOMAIN fwr
        res1 == [k \in DOMAIN res \ stale |-> res[k]]
        reg1 == unregisterAll(reg, {res[k] : k \in stale})
        \* a gauge lives on while the registry or the export layer holds it
        gs1 == [g \in DOMAIN gs \ ({res[k] : k \in stale} \ reg1) |-> gs[g]]
        newKeys == {k \in DOMAIN fwr : fwr[k] = "unregistered"}
        new == {res[k] : k \in newKeys}
        clean == /\ \A h \in new : ~MustRegister(reg1, gs1, h).panic
                 /\ \A h1, h2 \in new : identity(gs1[h1]) = identity(gs1[h2]) => h1 = h2
        out(r) == [Result |-> res1, gauges |-> gs1, registered |-> r.registered,
                   panic |-> r.panic, unregistering |-> stale, registering |-> newKeys]
    IN  IF clean
        THEN {out([panic |-> FALSE, registered |-> reg1 \cup new])}
        ELSE {out(runDeferred([panic |-> FALSE, registered |-> reg1], gs1, order, 1)) :
                 order \in Perms(new)}

(***************************************************************************)
(* Worker.SetMetrics, the Apply of the registry: SetMetrics, then          *)
(* RegisterMetrics unless SetMetrics failed.                               *)
(***************************************************************************)
WorkerSetMetrics(w, recs) ==
    \E o \in SetMetrics(Query[w], Result[w], gauges, recs) :
        LET call == [w |-> w, recs |-> recs, err |-> o.err, calls |-> o.calls,
                     canceled |-> ctxDone,
                     creating |-> DOMAIN o.Result \ DOMAIN Result[w],
                     unregistering |-> {}, registering |-> {}]
        IN  IF o.err # ""
            THEN /\ Result' = [Result EXCEPT ![w] = o.Result]
                 /\ gauges' = o.gauges
                 /\ registered' = registered
                 /\ crashed' = crashed
                 /\ last' = call
            ELSE \E r \in RegisterMetrics(o.Result, o.gauges, registered, o.fwr) :
                 /\ Result' = [Result EXCEPT ![w] = r.Result]
                 /\ gauges' = r.gauges
                 /\ registered' = r.registered
                 /\ crashed' = r.panic
                 /\ last' = [call EXCEPT !.err = IF r.panic THEN "panic" ELSE "",
                                         !.unregistering = r.unregistering,
                                         !.registering = r.registering]

(***************************************************************************)
(* The defaults of the configuration, durations in seconds.                *)
(***************************************************************************)
DefaultTimeout == 60
DefaultInterval == 300

\* createDefaultsData
createDefaultsData ==
    [DataSourceRef |-> "", QueryInterval |-> DefaultInterval,
     QueryTimeout |-> DefaultTimeout, QueryValueOnError |-> ""]

\* newConfig: the configuration when no configuration file is given
newConfig == [Defaults |-> createDefaultsData, DataSources |-> <<>>]

(***************************************************************************)
(* Queries and the rows their tables hold.                                 *)
(***************************************************************************)
Workers == {"q", "p"}

NoSubMetrics == <<>>
TwoSubMetrics == [a |-> "x", b |-> "y"]

\* data-field: count
QCount == [Name |-> "q", DataField |-> "count", SubMetrics |-> NoSubMetrics,
           ValueOnError |-> ""]
\* sub-metrics: {a: x, b: y}
QSub == [Name |-> "q", DataField |-> "", SubMetrics |-> TwoSubMetrics,
         ValueOnError |-> ""]
\* both, which SetMetrics refuses
QBoth == [Name |-> "q", DataField |-> "count", SubMetrics |-> TwoSubMetrics,
          ValueOnError |-> ""]
\* the query of the other worker
QOther == [Name |-> "p", DataField |-> "", SubMetrics |-> NoSubMetrics,
           ValueOnError |-> ""]

\* rows of the columns {region, count}
RegionCount == {[region |-> Str("us"), count |-> Num("1")],
                [region |-> Str("us"), count |-> Str("2")],
                [region |-> Str("US"), count |-> Num("1")],
                [region |-> Str("eu"), count |-> Num("1")],
                [region |-> Str("eu"), count |-> Str("abc")]}
\* rows whose columns collide in lower case, or hold no value column, or no number
Shapes == {[count |-> Num("1")],
           [region |-> Str("us"), Region |-> Str("eu"), count |-> Num("1")],
           [region |-> Str("us"), count |-> Num("1"), Count |-> Num("2")],
           [region |-> Str("us"), x |-> Num("1")],
           [region |-> Str("eu"), count |-> Bool("true")]}
\* rows for the sub-metrics a and b
SubRows == {[region |-> Str("us"), x |-> Num("1"), y |-> Num("2")],
            [region |-> Str("eu"), x |-> Str("abc"), y |-> Num("1")],
            [x |-> Num("1")]}

Scenarios == {[query |-> QCount, rows |-> RegionCount],
              [query |-> QSub, rows |-> SubRows],
              [query |-> QBoth, rows |-> SubRows]}

\* the record sets a fetch can decode from a table
RecordSets(T) == UNION {[1..n -> T] : n \in 0..MaxRows}

NoCall == [w |-> "", recs |-> <<>>, err |-> "none", calls |-> <<>>, canceled |-> FALSE,
           creating |-> {}, unregistering |-> {}, registering |-> {}]

(***************************************************************************)
(* Spec: one QueryResult (that of query q), driven through                 *)
(* Worker.SetMetrics by every sequence of record sets of its table.        *)
(***************************************************************************)
InitRegistry(scs) ==
    /\ config = newConfig
    /\ \E sc \in scs :
          /\ Query = [w \in Workers |-> IF w = "q" THEN sc.query ELSE QOther]
          /\ table = [w \in Workers |-> IF w = "q" THEN sc.rows ELSE {}]
    /\ Result = [w \in Workers |-> <<>>]
    /\ gauges = <<>>
    /\ registered = {}
    /\ crashed = FALSE
    /\ last = NoCall
    /\ pc = [w \in Workers |-> "fetch"]
    /\ attempt = [w \in Workers |-> 0]
    /\ ticker = [w \in Workers |-> "none"]
    /\ ctxDone = FALSE
    /\ wg = Cardinality(Workers)
    /\ mainpc = "serving"

Init == InitRegistry(Scenarios)

Apply ==
    \E recs \in RecordSets(table["q"]) :
        /\ ~crashed
        /\ WorkerSetMetrics("q", recs)
        /\ UNCHANGED <<config, Query, table, workerVars>>

Next == Apply

Spec == Init /\ [][Next]_vars

(***************************************************************************)
(* SpecShapes: the same, on rows whose columns collide in lower case, hold *)
(* no value column, or hold a value that is no number.                     *)
(***************************************************************************)
InitShapes == InitRegistry({[query |-> QCount, rows |-> Shapes]})

SpecShapes == InitShapes /\ [][Next]_vars

(***************************************************************************)
(* SpecWorker: main and the workers.  A worker is at one of the places     *)
(* where Start and Fetch block: "fetch" (client.Do, the request in         *)
(* flight), "backoff" (the select of Fetch), "select" (the select of       *)
(* Start), or it is "stopped".  A select with several ready cases takes    *)
(* any of them.  A request whose context is cancelled fails.               *)
(***************************************************************************)
\* worker.go:93-98: the record applied when a fetch attempt fails
errorRecs(q) == <<[error |-> Str(q.ValueOnError)]>>

\* tick() has returned: Start arms the ticker after the first one (line 148)
tickReturns(w) ==
    /\ pc' = [pc EXCEPT ![w] = "select"]
    /\ ticker' = [ticker EXCEPT ![w] = IF @ = "none" THEN "empty" ELSE @]

\* Fetch, lines 77-104: the attempt fails; the error record is applied when
\* ValueOnError is set; the backoff advances and Fetch waits in its select
FetchFails(w) ==
    /\ ~crashed /\ mainpc # "exited"
    /\ pc[w] = "fetch"
    /\ IF Query[w].ValueOnError # ""
       THEN WorkerSetMetrics(w, errorRecs(Query[w]))
       ELSE UNCHANGED <<regVars, crashed, last>>
    /\ attempt' = [attempt EXCEPT ![w] = IF @ < MaxAttempt THEN @ + 1 ELSE @]
    /\ pc' = [pc EXCEPT ![w] = IF crashed' THEN "fetch" ELSE "backoff"]
    /\ UNCHANGED <<config, Query, table, ticker, ctxDone, wg, mainpc>>

\* Fetch, lines 77-131: the attempt succeeds and the response decodes
FetchSucceeds(w) ==
    \E recs \in RecordSets(table[w]) :
        /\ ~crashed /\ mainpc # "exited"
        /\ pc[w] = "fetch"
        /\ ~ctxDone
        /\ attempt' = [attempt EXCEPT ![w] = 0]
        /\ WorkerSetMetrics(w, recs)
        /\ IF crashed' THEN UNCHANGED <<pc, ticker>> ELSE tickReturns(w)
        /\ UNCHANGED <<config, Query, table, ctxDone, wg, mainpc>>

FetchDecodeErrorRetried(w) ==
    /\ ~crashed /\ mainpc # "exited"
    /\ pc[w] = "fetch"
    /\ ~ctxDone
    /\ attempt' = [attempt EXCEPT ![w] = IF @ < MaxAttempt THEN @ + 1 ELSE @]
    /\ pc' = [pc EXCEPT ![w] = "backoff"]
    /\ UNCHANGED <<config, Query, table, regVars, crashed, last, ticker, ctxDone, wg, mainpc>>

\* Fetch, lines 114-126: the attempt succeeds and the response does not decode
FetchDecodeError(w) ==
    /\ ~crashed /\ mainpc # "exited"
    /\ pc[w] = "fetch"
    /\ ~ctxDone
    /\ attempt' = [attempt EXCEPT ![w] = 0]
    /\ tickReturns(w)
    /\ UNCHANGED <<config, Query, table, regVars, crashed, last, ctxDone, wg, mainpc>>

\* Fetch, lines 106-108: the backoff delay has elapsed
BackoffElapsed(w) ==
    /\ ~crashed /\ mainpc # "exited"
    /\ pc[w] = "backoff"
    /\ pc' = [pc EXCEPT ![w] = "fetch"]
    /\ UNCHANGED <<config, Query, table, regVars, crashed, last, attempt, ticker, ctxDone,
                   wg, mainpc>>

BackoffNeverCanceled(w) ==
    /\ FALSE
    /\ UNCHANGED vars

\* Fetch, lines 109-110: ctx.Done() is closed; Fetch returns an error, tick returns
BackoffCanceled(w) ==
    /\ ~crashed /\ mainpc # "exited"
    /\ pc[w] = "backoff"
    /\ ctxDone
    /\ tickReturns(w)
    /\ UNCHANGED <<config, Query, table, regVars, crashed, last, attempt, ctxDone, wg, mainpc>>

TickerStartsCycle(w) ==
    /\ ~crashed /\ mainpc # "exited"
    /\ ticker[w] = "empty"
    /\ ticker' = [ticker EXCEPT ![w] = "full"]
    /\ pc' = [pc EXCEPT ![w] = IF @ = "backoff" THEN "fetch" ELSE @]
    /\ UNCHANGED <<config, Query, table, regVars, crashed, last, attempt, ctxDone, wg, mainpc>>

\* time: the ticker sends on C, or drops the tick when C is full
TickerFires(w) ==
    /\ ~crashed /\ mainpc # "exited"
    /\ ticker[w] = "empty"
    /\ ticker' = [ticker EXCEPT ![w] = "full"]
    /\ UNCHANGED <<config, Query, table, regVars, crashed, last, pc, attempt, ctxDone, wg, mainpc>>

\* Start, lines 160-162: a tick is received and tick() called
StartTick(w) ==
    /\ ~crashed /\ mainpc # "exited"
    /\ pc[w] = "select"
    /\ ticker[w] = "full"
    /\ ticker' = [ticker EXCEPT ![w] = "empty"]
    /\ pc' = [pc EXCEPT ![w] = "fetch"]
    /\ UNCHANGED <<config, Query, table, regVars, crashed, last, attempt, ctxDone, wg, mainpc>>

\* Start, lines 153-158: ctx.Done() is closed; wg.Done() and return.
\* sync.WaitGroup panics when its counter goes below zero.
StartDone(w) ==
    /\ ~crashed /\ mainpc # "exited"
    /\ pc[w] = "select"
    /\ ctxDone
    /\ IF wg > 0
       THEN wg' = wg - 1 /\ crashed' = crashed
       ELSE wg' = wg /\ crashed' = TRUE
    /\ pc' = [pc EXCEPT ![w] = "stopped"]
    /\ UNCHANGED <<config, Query, table, regVars, last, attempt, ticker, ctxDone, mainpc>>

\* main, lines 375-380: graceful.Run has returned; cancel(), then wg.Wait()
Cancel ==
    /\ ~crashed
    /\ mainpc = "serving"
    /\ ctxDone' = TRUE
    /\ mainpc' = "waiting"
    /\ UNCHANGED <<config, Query, table, regVars, crashed, last, pc, attempt, ticker, wg>>

WaitReturnsEarly ==
    /\ ~crashed
    /\ mainpc = "waiting"
    /\ mainpc' = "exited"
    /\ UNCHANGED <<config, Query, table, regVars, crashed, last, pc, attempt, ticker, ctxDone, wg>>

\* main, lines 380-382: wg.Wait() returns when the counter is zero; main returns
WaitReturns ==
    /\ ~crashed
    /\ mainpc = "waiting"
    /\ wg = 0
    /\ mainpc' = "exited"
    /\ UNCHANGED <<config, Query, table, regVars, crashed, last, pc, attempt, ticker, ctxDone, wg>>

\* the tables of the two queries
WorkerRows == {[region |-> Str("us"), count |-> Num("1")],
               [region |-> Str("US"), count |-> Num("1")]}

\* main, lines 347-365: wg.Add(len(queries)), one worker per query, each started
InitWorker ==
    /\ config = newConfig
    /\ \E v \in {"", "1"} :
          Query = [w \in Workers |->
                      IF w = "q" THEN [QCount EXCEPT !.ValueOnError = v] ELSE QOther]
    /\ table = [w \in Workers |-> IF w = "q" THEN WorkerRows ELSE {}]
    /\ Result = [w \in Workers |-> <<>>]
    /\ gauges = <<>>
    /\ registered = {}
    /\ crashed = FALSE
    /\ last = NoCall
    /\ pc = [w \in Workers |-> "fetch"]
    /\ attempt = [w \in Workers |-> 0]
    /\ ticker = [w \in Workers |-> "none"]
    /\ ctxDone = FALSE
    /\ wg = Cardinality(Workers)
    /\ mainpc = "serving"

NextWorker ==
    \/ \E w \in Workers : FetchFails(w)
    \/ \E w \in Workers : FetchSucceeds(w)
    \/ \E w \in Workers : FetchDecodeError(w)
    \/ \E w \in Workers : BackoffElapsed(w)
    \/ \E w \in Workers : BackoffCanceled(w)
    \/ \E w \in Workers : TickerFires(w)
    \/ \E w \in Workers : StartTick(w)
    \/ \E w \in Workers : StartDone(w)
    \/ Cancel
    \/ WaitReturns

SpecWorker == InitWorker /\ [][NextWorker]_vars

(***************************************************************************)
(* What the claims speak of.                                               *)
(***************************************************************************)
\* the series a record can yield for one sub-metric: the key, the scalar, the labels
Series(q, row, sfx) ==
    LET sub == submetricsOf(q)
    IN  UNION {{[key |-> resultKey(q, f, sfx), val |-> row[c], labels |-> labelsOf(f)] :
                   f \in facetChoices(row, facetColumns(row, sub, sub[sfx]))} :
               c \in valueColumns(row, sub[sfx])}

\* the sets of Series Keys a record can yield, one key for every sub-metric
RowKeys(q, row) ==
    LET sfxs == DOMAIN submetricsOf(q)
        all == UNION {Series(q, row, sfx) : sfx \in sfxs}
    IN  {{g[sfx].key : sfx \in sfxs} :
            g \in {g \in [sfxs -> all] : \A sfx \in sfxs : g[sfx] \in Series(q, row, sfx)}}

\* the sets of Series Keys a Record Set can yield
SeriesKeys(q, recs) ==
    LET all == UNION {RowKeys(q, recs[i]) : i \in DOMAIN recs}
    IN  {UNION {ks[i] : i \in DOMAIN recs} :
            ks \in {ks \in [DOMAIN recs -> all] : \A i \in DOMAIN recs : ks[i] \in RowKeys(q, recs[i])}}

\* the keys of worker w whose gauge is registered in the export layer
Published(w) == {k \in DOMAIN Result[w] : Result[w][k] \in registered}

\* a call of Worker.SetMetrics for query q that returned without an error
Applied == last.w = "q" /\ last.err = ""

\* C1: after every successful Apply the series published by the query, the
\* entries of its registry and the Series Keys of the Record Set are the same set
C1_Mirror ==
    Applied =>
        /\ Published("q") = DOMAIN Result["q"]
        /\ registered = Range(Result["q"])
        /\ DOMAIN Result["q"] \in SeriesKeys(Query["q"], last.recs)

\* every record of the Record Set yields the key k and no other key
YieldsOnly(q, recs, k) ==
    /\ recs # <<>>
    /\ \A i \in DOMAIN recs : \A sfx \in DOMAIN submetricsOf(q) :
          /\ Series(q, recs[i], sfx) # {}
          /\ \A x \in Series(q, recs[i], sfx) : x.key = k

\* the value the last record yielding key k gives it
NewValue(q, recs, k) ==
    LET yields(i) == \E sfx \in DOMAIN submetricsOf(q) :
                        \E x \in Series(q, recs[i], sfx) : x.key = k
        i == CHOOSE i \in DOMAIN recs : yields(i) /\ \A j \in DOMAIN recs : yields(j) => j <= i
        x == CHOOSE x \in UNION {Series(q, recs[i], sfx) : sfx \in DOMAIN submetricsOf(q)} :
                x.key = k
    IN  ParseFloat(x.val.v).f

\* C2: when series A and B are published and the next Apply succeeds on a Record
\* Set that yields series A only, B is unregistered and removed, and A keeps its
\* handle, stays published and holds the value of the new Record Set
C2_Retire ==
    [][(last'.w = "q" /\ last'.err = "") =>
          \A A \in Published("q") :
             YieldsOnly(Query["q"], last'.recs, A) =>
                /\ A \in DOMAIN Result'["q"]
                /\ Result'["q"][A] = Result["q"][A]
                /\ Result'["q"][A] \in registered'
                /\ gauges'[Result'["q"][A]].value = NewValue(Query["q"], last'.recs, A)
                /\ \A B \in Published("q") \ {A} :
                      /\ B \notin DOMAIN Result'["q"]
                      /\ Result["q"][B] \notin registered'
                      /\ B \in last'.unregistering]_vars

\* a series was retired by an Apply that left one published series, holding a new value
C2_Witness ==
    /\ Applied
    /\ last.unregistering # {} /\ last.creating = {} /\ last.registering = {}
    /\ \E A \in Published("q") :
          /\ DOMAIN Result["q"] = {A}
          /\ gauges[Result["q"][A]].value = 2

\* C3: an Apply of the Record Set the Apply before it succeeded on creates no
\* entry, publishes nothing, retires nothing, and keeps every handle and value
C3_Idempotent ==
    [][(/\ last.w = "q" /\ last.err = ""
        /\ last'.w = "q" /\ last'.recs = last.recs)
       => /\ last'.err = ""
          /\ last'.creating = {} /\ last'.registering = {} /\ last'.unregistering = {}
          /\ UNCHANGED regVars]_vars

\* C4: with data-field count and no sub-metrics, a successful Apply of rows of the
\* columns {region, count} leaves one published series for every region value of
\* the rows, labelled region=<value> and nothing else
C4_OnePerRegion ==
    (/\ Applied
     /\ Query["q"] = QCount
     /\ \A i \in DOMAIN last.recs : DOMAIN last.recs[i] = {"region", "count"})
    => LET regions == {last.recs[i].region : i \in DOMAIN last.recs}
       IN  /\ Cardinality(registered) = Cardinality(regions)
           /\ \A v \in regions : \E h \in registered :
                 gauges[h].ConstLabels = [n \in {"region"} |-> ToLower(Sprintf(v))]

\* the Record Set or the query fails the structural validation
Invalid(q, recs) ==
    \/ Len(recs) > 1 /\ Cardinality(DOMAIN recs[1]) = 1
    \/ q.DataField # "" /\ DOMAIN q.SubMetrics # {}

\* C5: an Apply that fails the structural validation returns an error and changes
\* nothing: no entry created or removed, no value set, nothing published or retired
C5_ValidationChangesNothing ==
    [][(last'.w = "q" /\ Invalid(Query["q"], last'.recs))
       => /\ last'.err \in {"multirow", "incompatible"}
          /\ last'.calls = <<>>
          /\ last'.creating = {} /\ last'.registering = {} /\ last'.unregistering = {}
          /\ UNCHANGED regVars]_vars

\* a Record Set of two one-column rows was refused while series were published
C5_Witness ==
    /\ last.w = "q" /\ last.err = "multirow"
    /\ Len(last.recs) = 2
    /\ Published("q") # {}

\* the scalars a gauge can be set to: numbers, and strings that are decimal numbers
Coercible(v) == v.t \in {"float64", "int"} \/ (v.t = "string" /\ v.v \in {"0", "1", "2", "3"})

\* the (row, sub-metric) pair c of the call has one value column, and its scalar
\* is not a number
Uncoercible(q, recs, c) ==
    LET row == recs[c[1]]
        vcols == valueColumns(row, submetricsOf(q)[c[2]])
    IN  Cardinality(vcols) = 1 /\ \E k \in vcols : ~Coercible(row[k])

\* C6: an Apply that meets a value that is no number returns an error, enters no
\* later (row, sub-metric) pair, and neither publishes nor retires a series
C6_CoercionAborts ==
    [][\A j \in DOMAIN last'.calls :
          (last'.w = "q" /\ Uncoercible(Query["q"], last'.recs, last'.calls[j]))
          => /\ last'.err \in {"parse", "type"}
             /\ j = Len(last'.calls)
             /\ last'.registering = {} /\ last'.unregistering = {}
             /\ registered' = registered]_vars

\* the string "abc" ended an Apply before its last row, while series were published
C6_Witness ==
    /\ last.w = "q" /\ last.err = "parse"
    /\ last.calls[Len(last.calls)][1] < Len(last.recs)
    /\ \E k \in DOMAIN last.recs[last.calls[Len(last.calls)][1]] :
          last.recs[last.calls[Len(last.calls)][1]][k] = Str("abc")
    /\ Published("q") # {}

\* C7: no Record Set crashes the process: RegisterMetrics never registers a gauge
\* whose name and labels are registered already
C7_NoPanic == ~crashed

(***************************************************************************)
(* SpecWorkerFair: SpecWorker with the progress the scheduling gives.  A   *)
(* request ends (the client has a timeout), and a select whose case is     *)
(* ready again and again takes it in the end (Go chooses among the ready   *)
(* cases at random).                                                       *)
(***************************************************************************)
SpecWorkerFair ==
    /\ SpecWorker
    /\ \A w \in Workers :
          /\ WF_vars(FetchFails(w))
          /\ SF_vars(BackoffCanceled(w))
          /\ SF_vars(StartDone(w))

Stopped == {w \in Workers : pc[w] = "stopped"}

\* C8: once ctx.Done() is closed every worker signals completion and returns
\* from Start, and a worker in its backoff wait can leave it at once
C8_WorkersStop ==
    /\ ctxDone ~> (Stopped = Workers)
    /\ [](\A w \in Workers : (ctxDone /\ pc[w] = "backoff") => ENABLED BackoffCanceled(w))

\* every worker has stopped: one that was in its backoff wait when main cancelled
C8_Witness ==
    /\ Stopped = Workers
    /\ attempt["q"] > 0

\* C9: no Record Set is applied by a worker once ctx.Done() is closed
C9_NoApplyAfterCancel == ~last.canceled

\* C10: the counter starts at the number of queries, every worker decrements it
\* once and only after cancel(), it never goes below zero, and wg.Wait() returns
\* only when every worker has signalled completion
C10_WaitForAll ==
    /\ wg >= 0
    /\ wg = Cardinality(Workers) - Cardinality(Stopped)
    /\ (Stopped # {} => ctxDone)
    /\ (mainpc = "exited" => Stopped = Workers)
    /\ ~(crashed /\ last.err # "panic")

\* main has returned from wg.Wait()
C10_Witness == mainpc = "exited" /\ wg = 0

(***************************************************************************)
(* SpecDegraded: main and the workers, the query q having a ValueOnError,  *)
(* with a data-field or with several sub-metrics.                          *)
(***************************************************************************)
DegradedScenarios ==
    {[query |-> [QCount EXCEPT !.ValueOnError = "1"], rows |-> WorkerRows],
     [query |-> [QSub EXCEPT !.ValueOnError = "1"],
      rows |-> {[region |-> Str("us"), x |-> Num("2"), y |-> Num("3")]}]}

InitDegraded ==
    /\ config = newConfig
    /\ \E sc \in DegradedScenarios :
          /\ Query = [w \in Workers |-> IF w = "q" THEN sc.query ELSE QOther]
          /\ table = [w \in Workers |-> IF w = "q" THEN sc.rows ELSE {}]
    /\ Result = [w \in Workers |-> <<>>]
    /\ gauges = <<>>
    /\ registered = {}
    /\ crashed = FALSE
    /\ last = NoCall
    /\ pc = [w \in Workers |-> "fetch"]
    /\ attempt = [w \in Workers |-> 0]
    /\ ticker = [w \in Workers |-> "none"]
    /\ ctxDone = FALSE
    /\ wg = Cardinality(Workers)
    /\ mainpc = "serving"

SpecDegraded == InitDegraded /\ [][NextWorker]_vars

\* C11: a worker with a ValueOnError that waits in its backoff has applied the
\* error record: its query exposes one series, without labels, holding
\* ValueOnError, and none of the series of earlier cycles
C11_Degraded ==
    \A w \in Workers :
        (pc[w] = "backoff" /\ Query[w].ValueOnError # "") =>
            /\ Cardinality(Published(w)) = 1
            /\ \A k \in Published(w) :
                  /\ gauges[Result[w][k]].value = ParseFloat(Query[w].ValueOnError).f
                  /\ gauges[Result[w][k]].ConstLabels = <<>>
            /\ DOMAIN Result[w] = Published(w)

(***************************************************************************)
(* defaultBackoff (worker.go:22-27), in seconds.  Duration() returns       *)
(* ForAttempt(attempt) and advances attempt; Reset() sets attempt to 0.    *)
(* With jitter the duration is anywhere between Min and the doubled, capped*)
(* delay of the attempt.                                                   *)
(***************************************************************************)
BackoffMin == 1
BackoffMax == 300
BackoffFactor == 2

RECURSIVE Pow(_, _)
Pow(b, n) == IF n = 0 THEN 1 ELSE b * Pow(b, n - 1)

ForAttempt(a) ==
    LET d == BackoffMin * Pow(BackoffFactor, a)
    IN  [lo |-> BackoffMin, hi |-> IF d > BackoffMax THEN BackoffMax ELSE d]

\* a step of worker w from one place of Start / Fetch to another
Goes(w, from, to) == pc[w] = from /\ pc'[w] = to

\* C12: a failed attempt advances the backoff by one step (1s, doubling up to
\* 5 min), a successful attempt resets it to the first step, the cycle after a
\* success is started by the ticker, and a cycle of a worker that has succeeded
\* before starts at the first step, so that its first failure waits the initial delay
C12_BackoffPerStreak ==
    [][\A w \in Workers :
          /\ Goes(w, "fetch", "backoff") =>
                /\ attempt'[w] = (IF attempt[w] < MaxAttempt THEN attempt[w] + 1
                                                             ELSE attempt[w])
                /\ ForAttempt(attempt[w]).hi =
                      (IF attempt[w] = 0 THEN 1
                       ELSE IF 2 * ForAttempt(attempt[w] - 1).hi > 300 THEN 300
                       ELSE 2 * ForAttempt(attempt[w] - 1).hi)
          /\ Goes(w, "fetch", "select") => attempt'[w] = 0
          /\ Goes(w, "select", "fetch") =>
                /\ ticker[w] = "full"
                /\ (Published(w) # {} /\ Query[w].ValueOnError = "") =>
                      /\ attempt[w] = 0
                      /\ ForAttempt(attempt[w]) = [lo |-> 1, hi |-> 1]]_vars

\* C13: a worker runs one cycle at a time: a tick that fires while a cycle is in
\* its request or its backoff wait is buffered and starts nothing, a cycle is
\* started from the select of Start only, and the registry of a worker changes
\* only in an attempt of its one running cycle
C13_OneCycle ==
    [][\A w \in Workers :
          /\ (ticker[w] = "empty" /\ ticker'[w] = "full" /\ pc[w] \in {"fetch", "backoff"}) =>
                /\ pc'[w] = pc[w]
                /\ UNCHANGED <<regVars, last, attempt>>
          /\ (pc'[w] = "fetch" /\ pc[w] # "fetch") =>
                \/ pc[w] = "select" /\ ticker[w] = "full" /\ ticker'[w] = "empty"
                \/ pc[w] = "backoff" /\ ticker'[w] = ticker[w]
          /\ Result'[w] # Result[w] => pc[w] = "fetch" /\ last'.w = w]_vars

\* the ticker has fired while the cycle of q waits in its backoff
C13_Witness == pc["q"] = "backoff" /\ ticker["q"] = "full"

(***************************************************************************)
(* SpecLoad: main loads the configuration and the queries.  main is at     *)
(* "loadConfig" (a configuration file was given and decoded), at           *)
(* "loadQueries", "serving" once the workers are started, or "fatal"       *)
(* (log.Fatal).  A query is "parsed" (decoded from YAML) until             *)
(* decodeQueries has given it its defaults and validated it ("loaded").    *)
(***************************************************************************)
\* appendDefaults
appendDefaults(c) ==
    [c EXCEPT !.Defaults.QueryInterval = IF @ = 0 THEN DefaultInterval ELSE @,
              !.Defaults.QueryTimeout = IF @ = 0 THEN DefaultTimeout ELSE @]

\* validateConfig: the error, "" for none
validateConfig(c) ==
    IF \E n \in DOMAIN c.DataSources : c.DataSources[n].Driver = "" THEN "driver"
    ELSE IF \E n \in DOMAIN c.DataSources : c.DataSources[n].Properties = "" THEN "properties"
    ELSE ""

\* validateQuery: the error, "" for none
validateQuery(q) ==
    IF q.Name = "" THEN "name"
    ELSE IF q.Driver = "" THEN "driver"
    ELSE IF q.SQL = "" THEN "sql"
    ELSE IF q.Timeout = 0 THEN "timeout"
    ELSE IF q.Interval = 0 THEN "interval"
    ELSE ""

\* config.DataSources[ref]: the zero DataSource when ref is no key
dataSource(c, ref) ==
    IF ref \in DOMAIN c.DataSources THEN c.DataSources[ref]
    ELSE [Driver |-> "", Properties |-> ""]

\* decodeQueries, lines 185-212: the query named k with its defaults
withDefaults(q0, k, c) ==
    LET q1 == [q0 EXCEPT !.Name = k]
        q2 == [q1 EXCEPT !.DataSourceRef = IF @ = "" THEN c.Defaults.DataSourceRef ELSE @]
        q3 == IF q2.Driver = "" /\ q2.DataSourceRef # "" /\ DOMAIN c.DataSources # {}
              THEN [q2 EXCEPT !.Driver = dataSource(c, q2.DataSourceRef).Driver,
                              !.Connection = dataSource(c, q2.DataSourceRef).Properties]
              ELSE q2
        q4 == [q3 EXCEPT !.Interval = IF @ = 0 THEN c.Defaults.QueryInterval ELSE @]
        q5 == [q4 EXCEPT !.Timeout = IF @ = 0 THEN c.Defaults.QueryTimeout ELSE @]
        q6 == [q5 EXCEPT !.ValueOnError =
                  IF @ = "" /\ c.Defaults.QueryValueOnError # ""
                  THEN c.Defaults.QueryValueOnError ELSE @]
    IN  [q6 EXCEPT !.DataField = ToLower(@)]

\* the durations a YAML file may give: negative, absent or zero, positive
Durations == {-1, 0, 1}

\* the configurations a file may hold, as yaml.Unmarshal leaves them
ParsedConfigs ==
    {[Defaults |-> [DataSourceRef |-> r, QueryInterval |-> i, QueryTimeout |-> t,
                    QueryValueOnError |-> v],
      DataSources |-> [ds \in {"ds"} |-> [Driver |-> "d", Properties |-> p]]] :
        r \in {"", "ds"}, i \in Durations, t \in Durations, v \in {"", "1"},
        p \in {"", "props"}}

\* the queries a file may hold, as yaml.Unmarshal leaves them
ParsedQueries(w) ==
    {[Name |-> "", DataSourceRef |-> r, Driver |-> d, Connection |-> "", SQL |-> s,
      Interval |-> i, Timeout |-> t, DataField |-> "Count", SubMetrics |-> NoSubMetrics,
      ValueOnError |-> ""] :
        r \in {"", "ds"}, d \in {"", "d"}, s \in IF w = "q" THEN {"", "select"} ELSE {"select"},
        i \in IF w = "q" THEN Durations ELSE {0},
        t \in IF w = "q" THEN Durations ELSE {0}}

InitLoad ==
    /\ \/ config = newConfig /\ mainpc = "loadQueries"
       \/ config \in ParsedConfigs /\ mainpc = "loadConfig"
    /\ Query \in [Workers -> UNION {ParsedQueries(w) : w \in Workers}]
    /\ \A w \in Workers : Query[w] \in ParsedQueries(w)
    /\ table = [w \in Workers |-> {}]
    /\ Result = [w \in Workers |-> <<>>]
    /\ gauges = <<>>
    /\ registered = {}
    /\ crashed = FALSE
    /\ last = NoCall
    /\ pc = [w \in Workers |-> "parsed"]
    /\ attempt = [w \in Workers |-> 0]
    /\ ticker = [w \in Workers |-> "none"]
    /\ ctxDone = FALSE
    /\ wg = 0

\* loadConfig: appendDefaults, then validateConfig
LoadConfig ==
    /\ mainpc = "loadConfig"
    /\ config' = appendDefaults(config)
    /\ mainpc' = IF validateConfig(config') = "" THEN "loadQueries" ELSE "fatal"
    /\ UNCHANGED <<Query, table, regVars, crashed, last, pc, attempt, ticker, ctxDone, wg>>

\* decodeQueries, lines 184-218: one query gets its defaults and is validated
DecodeQuery(w) ==
    /\ mainpc = "loadQueries"
    /\ pc[w] = "parsed"
    /\ Query' = [Query EXCEPT ![w] = withDefaults(@, w, config)]
    /\ IF validateQuery(Query'[w]) = ""
       THEN pc' = [pc EXCEPT ![w] = "loaded"] /\ mainpc' = mainpc
       ELSE pc' = pc /\ mainpc' = "fatal"
    /\ UNCHANGED <<config, table, regVars, crashed, last, attempt, ticker, ctxDone, wg>>

\* main, lines 345-365: wg.Add(len(queries)); a worker for every query, started
StartWorkers ==
    /\ mainpc = "loadQueries"
    /\ \A w \in Workers : pc[w] = "loaded"
    /\ wg' = Cardinality(Workers)
    /\ pc' = [w \in Workers |-> "fetch"]
    /\ mainpc' = "serving"
    /\ UNCHANGED <<config, Query, table, regVars, crashed, last, attempt, ticker, ctxDone>>

NextLoad ==
    \/ LoadConfig
    \/ \E w \in Workers : DecodeQuery(w)
    \/ StartWorkers

SpecLoad == InitLoad /\ [][NextLoad]_vars

\* C14: validateQuery rejects a query whose Interval is 0, and every query that
\* decodeQueries has accepted, and so every query a worker is started for, has
\* an Interval and a Timeout greater than zero
C14_PositiveDurations ==
    \A w \in Workers :
        /\ Query[w].Interval = 0 => validateQuery(Query[w]) # ""
        /\ pc[w] \in {"loaded", "fetch"} => Query[w].Interval > 0 /\ Query[w].Timeout > 0

\* C15: an entry created by an Apply that aborted is still unregistered: the next
\* Apply that succeeds on a Record Set with its Series Key publishes it
C15_UnregisteredUntilPublished ==
    [][(/\ last.w = "q" /\ last.err \in {"parse", "type", "ambiguous", "notfound"}
        /\ last'.w = "q" /\ last'.err = "")
       => \A k \in last.creating \cap DOMAIN Result'["q"] :
             /\ k \in last'.registering
             /\ Result'["q"][k] \in registered']_vars

\* C16: for one metric name, two records of an applied Record Set yield the same
\* Series Key exactly when they yield the same label set, and two entries of
\* the registry with the same metric name and the same labels are one entry
C16_KeysAgreeWithLabels ==
    /\ \A i, j \in DOMAIN last.recs :
          \A sfx \in DOMAIN submetricsOf(Query[last.w]) :
             \A x \in Series(Query[last.w], last.recs[i], sfx) :
                \A y \in Series(Query[last.w], last.recs[j], sfx) :
                   (x.key = y.key) <=> (x.labels = y.labels)
    /\ \A k1, k2 \in DOMAIN Result["q"] :
          identity(gauges[Result["q"][k1]]) = identity(gauges[Result["q"][k2]]) => k1 = k2

\* C17: a backoff wait is left for the select of Start only when ctx.Done() is
\* closed; Fetch then issues no request and applies nothing, and the next step
\* of the worker (whose backoff was not reset) is to signal completion and return
C17_CanceledInBackoff ==
    [][\A w \in Workers :
          /\ Goes(w, "backoff", "select") =>
                /\ ctxDone
                /\ UNCHANGED <<regVars, last, attempt>>
          /\ (pc[w] = "select" /\ attempt[w] > 0 /\ pc'[w] # "select") =>
                pc'[w] = "stopped"]_vars

\* C18: when the response of a successful attempt does not decode, Fetch returns:
\* the worker is back in the select of Start, waiting for the next tick, without a
\* backoff wait or another attempt, the backoff is reset, and the registry, the
\* published series and their values are as they were
C18_DecodeErrorReturns ==
    [][\A w \in Workers :
          FetchDecodeError(w) =>
             /\ pc[w] = "fetch" /\ pc'[w] = "select"
             /\ ticker'[w] \in {"empty", "full"}
             /\ attempt'[w] = 0
             /\ UNCHANGED <<regVars, last, crashed>>]_vars

\* the error series published by a failed attempt is still there when the next
\* attempt of the cycle got a response that did not decode
C18_Witness ==
    /\ pc["q"] = "select" /\ ~ctxDone /\ attempt["q"] = 0
    /\ Query["q"].ValueOnError # ""
    /\ DOMAIN Result["q"] = {"q{}"}
    /\ Published("q") = {"q{}"}

(***************************************************************************)
(* SpecColumns: one QueryResult, on rows with no, one or two value columns *)
(* for a sub-metric or for the data-field.                                 *)
(***************************************************************************)
ColumnRows == {[region |-> Str("us"), x |-> Num("1"), y |-> Num("2")],
               [region |-> Str("us"), x |-> Num("1")],
               [region |-> Str("us"), x |-> Num("1"), X |-> Num("2"), y |-> Num("3")]}

InitColumns == InitRegistry({[query |-> QSub, rows |-> ColumnRows],
                             [query |-> QCount, rows |-> Shapes]})

SpecColumns == InitColumns /\ [][Next]_vars

\* the columns of a row whose lower-cased name is the value column of a sub-metric
Matching(q, row, sfx) == {k \in DOMAIN row : ToLower(k) = submetricsOf(q)[sfx]}

\* the label names of a row: its columns that are no value column of any sub-metric
FacetNames(q, row) ==
    {ToLower(k) : k \in {c \in DOMAIN row : ToLower(c) \notin Range(submetricsOf(q))}}

\* C19: for every (row, sub-metric) pair Apply enters on a row with more than one
\* column: with no column named as the sub-metric's value column Apply fails there
\* with "value not found", with more than one it fails there with "ambiguous
\* value column", and with one it takes that column as the value and the columns
\* that are no value column of any sub-metric as the labels of the pair's series
C19_OneValueColumn ==
    [][last'.w = "q" =>
         \A j \in DOMAIN last'.calls :
            LET q == Query["q"]
                row == last'.recs[last'.calls[j][1]]
                sfx == last'.calls[j][2]
                cols == Matching(q, row, sfx)
                failsHere(e) == last'.err = e /\ j = Len(last'.calls)
            IN  Cardinality(DOMAIN row) > 1 =>
                  /\ cols = {} => failsHere("notfound")
                  /\ Cardinality(cols) > 1 => failsHere("ambiguous")
                  /\ Cardinality(cols) = 1 =>
                        /\ ~failsHere("notfound") /\ ~failsHere("ambiguous")
                        /\ \E k \in DOMAIN Result'["q"] :
                              LET g == gauges'[Result'["q"][k]]
                              IN  /\ g.Name = "query_result_" \o metricName(q, sfx)
                                  /\ DOMAIN g.ConstLabels = FacetNames(q, row)
                                  /\ \A n \in FacetNames(q, row) :
                                        \E c \in DOMAIN row :
                                           /\ ToLower(c) = n
                                           /\ g.ConstLabels[n] = ToLower(Sprintf(row[c]))
                                  /\ (Len(last'.recs) = 1 /\ last'.err = "") =>
                                        \A c \in cols : g.value = ParseFloat(row[c].v).f]_vars

\* an Apply on a row with two value columns for a sub-metric has failed, after an
\* Apply that took one column for every sub-metric and published their series
C19_Witness ==
    /\ last.w = "q" /\ last.err = "ambiguous"
    /\ Query["q"] = QSub
    /\ Cardinality(Published("q")) = 2

\* C20: in one pass of RegisterMetrics every stale entry is unregistered and
\* removed before any new handle is registered: after the pass no stale series
\* is published, and a new series is registered without a panic also when it
\* has the name and the labels of a series the same pass retires
C20_RetireBeforePublish ==
    [][(last'.w = "q" /\ last'.err \in {"", "panic"}) =>
          LET stale == last'.unregistering
              new == last'.registering
              staying == registered \ {Result["q"][k] : k \in stale}
              clash == \/ \E k \in new : \E h \in staying :
                             identity(gauges'[Result'["q"][k]]) = identity(gauges[h])
                       \/ \E k1, k2 \in new :
                             /\ k1 # k2
                             /\ identity(gauges'[Result'["q"][k1]])
                                   = identity(gauges'[Result'["q"][k2]])
          IN  /\ \A k \in stale :
                    /\ k \notin DOMAIN Result'["q"]
                    /\ Result["q"][k] \notin registered'
              /\ ~clash =>
                    /\ ~crashed'
                    /\ \A k \in new : Result'["q"][k] \in registered']_vars

\* a pass has retired the series of region "US" and published the series of
\* region "us", which has the same name and labels
C20_Witness ==
    /\ last.w = "q" /\ last.err = ""
    /\ last.unregistering = {"q{\"region\":\"US\"}"}
    /\ last.registering = {"q{\"region\":\"us\"}"}
    /\ Published("q") = {"q{\"region\":\"us\"}"}
====
